---- MODULE Spec2Model ----
\* Crawl engines of the Google Maps review scraper:
\*   * OptimizedGoogleMapsReviewScraper (main_requests/optimized_dual_scraper.py):
\*     two producers and num_workers consumers around a bounded asyncio.Queue;
\*   * DualAsyncGoogleMapsReviewScraper (dual_async_scraper_v3.py): two
\*     scrape_direction tasks sharing the dedup state.
\* Tasks are asyncio coroutines: a step of the model is the code between two
\* suspension points (await), which runs without interleaving.
\* Three specifications:
\*   Spec          either scraper against a server that may answer anything;
\*   ScenarioSpec  the optimized scraper against a scripted two-page server;
\*   FnSpec        one call of a decoder function (fast_parse_review,
\*                 calculate_confidence, the envelope decoding of parse_batch).
EXTENDS Integers, Sequences, FiniteSets, TLC

\* ---------------------------------------------------------------- bounds
NumTokens == 1          \* distinct continuation tokens the server may advertise
NumReviewers == 2       \* distinct reviewer ids occurring in responses
MaxQueueSize == 2       \* max_queue_size is drawn from 1..MaxQueueSize
MaxPagesArg == 2        \* max_pages_per_direction is None or drawn from 1..MaxPagesArg
MaxAdvertised == 3      \* tokens one page advertises to get_next_unused_token
MaxWidth == 2           \* items of one list of the nested entry the walkers are given

\* ---------------------------------------------------- program constants
duplicate_threshold == 15       \* optimized_dual_scraper.py, __init__
num_workers == 2                \* optimized_dual_scraper.py, main
v3_duplicate_limit == 100       \* dual_async_scraper_v3.py, parse_reviews_from_response

Directions == {"HIGHEST", "LOWEST"}
Workers == 1..num_workers
NoToken == 0                       \* None / empty cursor
Tokens == 1..NumTokens
ReviewerIds == 1..NumReviewers
NoReview == 0                      \* fast_parse_review returned None
NoLimit == 0                       \* max_pages_per_direction=None

\* ------------------------------------------------------- response bodies
\* A review entry of data[2], described by what the decoder makes of it.
Rev(r) == [kind |-> "review", reviewerId |-> r]
Malformed == [kind |-> "malformed", reviewerId |-> 0]   \* a list the decoder rejects
NotList == [kind |-> "notlist", reviewerId |-> 0]       \* an entry that is no list

\* A body carries data[2] as runs <<entry, n>>: n copies of entry in a row.
Run(x, n) == <<x, n>>

RECURSIVE Entries(_)
Entries(runs) ==
    IF runs = <<>> THEN <<>>
    ELSE [i \in 1..Head(runs)[2] |-> Head(runs)[1]] \o Entries(Tail(runs))

\* A response body: the RPC prefix, and what json_loads yields for the rest.
\*   shape "notjson": json_loads raises; "notlist": a value that is no list;
\*   "list": a top-level array of len elements, token = data[1], entries = data[2].
MkBody(prefix, shape, len, token, entries) ==
    [prefix |-> prefix, shape |-> shape, len |-> len, token |-> token, entries |-> entries]

\* the entry lists the server answers with: none; every reviewer once, two
\* undecodable entries and a run of repeats below the threshold; a run of
\* repeats above it
EntryLists ==
    { <<>>,
      [i \in 1..NumReviewers |-> Run(Rev(i), 1)]
          \o <<Run(Malformed, 1), Run(NotList, 1),
               Run(Rev(1), duplicate_threshold \div 2 + 1)>>,
      <<Run(Rev(1), duplicate_threshold + 2)>> }

Bodies ==
    { MkBody(TRUE, "list", 3, t, e) : t \in {NoToken} \cup Tokens, e \in EntryLists }
    \cup { MkBody(TRUE, "notjson", 0, NoToken, <<>>),
           MkBody(FALSE, "notlist", 0, NoToken, <<>>),
           MkBody(FALSE, "list", 2, 1, <<>>) }

\* ------------------------------------------------------------ variables
VARIABLES
    scraper,             \* which of the two scrapers this run is of
    server,              \* how the server answers: "any" body, or a scripted scenario
    fn_in,               \* a call of a decoder function: <<function, argument>>
    fn_out,              \* what the call returned
    max_queue_size,      \* asyncio.Queue(maxsize=max_queue_size)
    queue,               \* items put and not yet taken: <<body, direction, id>>
    unfinished_tasks,    \* the queue's count of put() minus task_done()
    stop_event,
    all_reviews,         \* sequence of [reviewerId, sortDirection]
    seen_reviewer_ids,
    duplicate_count,
    used_tokens,
    stats,               \* direction -> [pages, reviews, duplicates]
    ppc,                 \* producer position, per direction
    ptoken,              \* producer's local token
    ppage,               \* producer's local page
    pbody,               \* body a producer holds while in put()
    cpc,                 \* consumer position, per worker
    citem,               \* item a consumer took from the queue
    run_pc,              \* position of run()
    requests,            \* history: tokens submitted, per direction
    put_count,           \* history: number of completed put()
    handled,             \* history: ids of items handed to parse_batch
    parse_calls,         \* history: number of parse_batch calls by consumers
    batch_log,           \* history: <<entries, seen before, raised>> per counted batch
    stop_by_duplicates,  \* history: parse_batch has set stop_event
    late_requests,       \* history: requests issued after parse_batch set stop_event
    put_log,             \* history: the direction of each completed put(), in order
    \* DualAsyncGoogleMapsReviewScraper (dual_async_scraper_v3.py)
    v3_all_reviews,
    v3_seen_reviewer_ids,
    v3_duplicate_count,
    v3_stop_scraping,
    v3_used_tokens,      \* used_tokens_highest / used_tokens_lowest
    v3_stats,
    v3_pc,               \* position of scrape_direction, per direction
    v3_token,            \* continuation_token of scrape_direction
    v3_page,             \* page_number of scrape_direction
    v3_main_pc,          \* position of scrape_all_reviews_dual
    v3_max_pages,        \* max_pages_per_direction / --max-pages, NoLimit for None
    v3_requests          \* history: tokens submitted, per direction

v3vars == <<v3_all_reviews, v3_seen_reviewer_ids, v3_duplicate_count, v3_stop_scraping,
            v3_used_tokens, v3_stats, v3_pc, v3_token, v3_page, v3_main_pc,
            v3_max_pages, v3_requests>>

fnvars == <<fn_in, fn_out>>

optvars == <<max_queue_size, queue, unfinished_tasks, stop_event, all_reviews,
             seen_reviewer_ids, duplicate_count, used_tokens, stats, ppc, ptoken,
             ppage, pbody, cpc, citem, run_pc, requests, put_count, handled,
             parse_calls, batch_log, stop_by_duplicates, late_requests, put_log>>

vars == <<scraper, server, fnvars, v3vars, max_queue_size, queue, unfinished_tasks, stop_event, all_reviews,
          seen_reviewer_ids, duplicate_count, used_tokens, stats, ppc, ptoken,
          ppage, pbody, cpc, citem, run_pc, requests, put_count, handled,
          parse_calls, batch_log, stop_by_duplicates, late_requests, put_log>>

NoBody == MkBody(FALSE, "none", 0, NoToken, <<>>)
NoItem == <<NoBody, "HIGHEST", 0>>

OptInit ==
    /\ queue = <<>>
    /\ unfinished_tasks = 0
    /\ stop_event = FALSE
    /\ all_reviews = <<>>
    /\ seen_reviewer_ids = {}
    /\ duplicate_count = 0
    /\ used_tokens = {}
    /\ stats = [d \in Directions |-> [pages |-> 0, reviews |-> 0, duplicates |-> 0]]
    /\ ppc = [d \in Directions |-> "loop"]
    /\ ptoken = [d \in Directions |-> NoToken]
    /\ ppage = [d \in Directions |-> 1]
    /\ pbody = [d \in Directions |-> NoBody]
    /\ cpc = [w \in Workers |-> "get"]
    /\ citem = [w \in Workers |-> NoItem]
    /\ run_pc = "gather_producers"
    /\ requests = [d \in Directions |-> <<>>]
    /\ put_count = 0
    /\ handled = {}
    /\ parse_calls = 0
    /\ batch_log = {}
    /\ stop_by_duplicates = FALSE
    /\ late_requests = 0
    /\ put_log = <<>>

V3Init ==
    /\ v3_all_reviews = <<>>
    /\ v3_seen_reviewer_ids = {}
    /\ v3_duplicate_count = 0
    /\ v3_stop_scraping = FALSE
    /\ v3_used_tokens = [d \in Directions |-> {}]
    /\ v3_stats = [d \in Directions |-> [pages |-> 0, reviews |-> 0, duplicates |-> 0]]
    /\ v3_pc = [d \in Directions |-> "loop"]
    /\ v3_token = [d \in Directions |-> NoToken]
    /\ v3_page = [d \in Directions |-> 1]
    /\ v3_main_pc = "gather"
    /\ v3_requests = [d \in Directions |-> <<>>]

\* no decoder function is being called
NoCall == <<"none">>
NoResult == <<"pending">>

Init ==
    /\ scraper \in {"optimized", "v3"}
    /\ server = "any"
    /\ fn_in = NoCall
    /\ fn_out = NoResult
    /\ max_queue_size \in (IF scraper = "optimized" THEN 1..MaxQueueSize ELSE {1})
    /\ v3_max_pages \in (IF scraper = "v3" THEN {NoLimit} \cup 1..MaxPagesArg ELSE {NoLimit})
    /\ OptInit
    /\ V3Init

\* ------------------------------------------------------------ parse_batch
strip_rpc_prefix(body) == [body EXCEPT !.prefix = FALSE]

\* the reviewerId of the Review fast_parse_review returns, NoReview for None
fast_parse_review(review_data) ==
    IF review_data.kind = "review" THEN review_data.reviewerId ELSE NoReview

\* the for loop of parse_batch; st = [seen, parsed, dups, total]
RECURSIVE DedupLoop(_, _)
DedupLoop(reviews_list, st) ==
    IF reviews_list = <<>> THEN st
    ELSE LET review_data == Head(reviews_list)
             rest == Tail(reviews_list)
         IN IF review_data.kind = "notlist" THEN DedupLoop(rest, st)
            ELSE LET review == fast_parse_review(review_data)
                 IN IF review = NoReview THEN DedupLoop(rest, st)
                    ELSE IF review \in st.seen
                         THEN DedupLoop(rest, [st EXCEPT !.dups = @ + 1, !.total = @ + 1])
                         ELSE DedupLoop(rest, [st EXCEPT !.seen = @ \cup {review},
                                                         !.parsed = Append(@, review)])

\* mutant: the event follows the last batch
SetEvent_Assign(event, raise) == raise

\* Event.set() under a condition: set, never cleared
SetEvent(event, raise) == event \/ raise

\* mutant: the running total is compared
BatchDuplicates_Cumulative(st) == st.total

\* the count compared with duplicate_threshold
BatchDuplicates(st) == st.dups

\* mutant: the accepted reviewer ids are not added to seen_reviewer_ids
ParseBatch_SeenNotKept(response_body, seen, dupcount) ==
    LET data == strip_rpc_prefix(response_body)
        st == DedupLoop(Entries(data.entries),
                        [seen |-> seen, parsed |-> <<>>, dups |-> 0, total |-> dupcount])
    IN [parsed |-> IF data.shape = "list" /\ data.len >= 3 THEN st.parsed ELSE <<>>,
        seen |-> seen, total |-> st.total, dups |-> st.dups,
        counted |-> data.shape = "list" /\ data.len >= 3 /\ data.entries # <<>>,
        raise |-> BatchDuplicates(st) > duplicate_threshold]

\* mutant: an entry that cannot be decoded is counted as a duplicate
ParseBatch_FailureCounted(response_body, seen, dupcount) ==
    LET data == strip_rpc_prefix(response_body)
        reviews_list == Entries(data.entries)
        failures == Cardinality({ i \in 1..Len(reviews_list) : reviews_list[i].kind # "review" })
        st == DedupLoop(reviews_list,
                        [seen |-> seen, parsed |-> <<>>, dups |-> 0, total |-> dupcount])
    IN [parsed |-> IF data.shape = "list" /\ data.len >= 3 THEN st.parsed ELSE <<>>,
        seen |-> st.seen, total |-> st.total + failures, dups |-> st.dups + failures,
        counted |-> data.shape = "list" /\ data.len >= 3 /\ data.entries # <<>>,
        raise |-> BatchDuplicates(st) > duplicate_threshold]

\* mutant: duplicates are counted for the batch but not in duplicate_count
ParseBatch_TotalNotCounted(response_body, seen, dupcount) ==
    LET data == strip_rpc_prefix(response_body)
        st == DedupLoop(Entries(data.entries),
                        [seen |-> seen, parsed |-> <<>>, dups |-> 0, total |-> dupcount])
    IN [parsed |-> IF data.shape = "list" /\ data.len >= 3 THEN st.parsed ELSE <<>>,
        seen |-> st.seen, total |-> dupcount, dups |-> st.dups,
        counted |-> data.shape = "list" /\ data.len >= 3 /\ data.entries # <<>>,
        raise |-> BatchDuplicates(st) > duplicate_threshold]

\* parse_batch(response_body, direction) on the shared state (seen, dupcount):
\* the records returned and the shared state it leaves behind.
ParseBatch(response_body, seen, dupcount) ==
    LET data == strip_rpc_prefix(response_body)
        empty == [parsed |-> <<>>, seen |-> seen, total |-> dupcount, dups |-> 0,
                  counted |-> FALSE, raise |-> FALSE]
    IN IF data.shape # "list" \/ data.len < 3 THEN empty
       ELSE IF data.entries = <<>> THEN empty
       ELSE LET st == DedupLoop(Entries(data.entries),
                        [seen |-> seen, parsed |-> <<>>, dups |-> 0, total |-> dupcount])
            IN [parsed |-> st.parsed, seen |-> st.seen, total |-> st.total,
                dups |-> st.dups, counted |-> TRUE,
                raise |-> BatchDuplicates(st) > duplicate_threshold]


\* --------------------------------------------------------------- producer
StatsKey(direction) == direction

\* mutant: the page after this one is requested along with it
IssueRequest_Prefetch(reqs, d, token) ==
    [reqs EXCEPT ![d] = Append(Append(@, token), token)]

\* lines 329-332: one session.get with the querystring built from token
IssueRequest(reqs, d, token) == [reqs EXCEPT ![d] = Append(@, token)]

\* producer, lines 326-332: the loop test and, when the event is clear, the
\* request for the current token.
ProducerLoop(d) ==
    /\ scraper = "optimized"
    /\ ppc[d] = "loop"
    /\ IF stop_event
       THEN /\ ppc' = [ppc EXCEPT ![d] = "finished"]
            /\ UNCHANGED <<requests, late_requests>>
       ELSE /\ ppc' = [ppc EXCEPT ![d] = "inflight"]
            /\ requests' = IssueRequest(requests, d, ptoken[d])
            /\ late_requests' = late_requests + (IF stop_by_duplicates THEN 1 ELSE 0)
    /\ UNCHANGED <<scraper, server, fnvars, v3vars, max_queue_size, queue, unfinished_tasks, stop_event,
                   all_reviews, seen_reviewer_ids, duplicate_count, used_tokens, stats,
                   ptoken, ppage, pbody, cpc, citem, run_pc, put_count, handled,
                   parse_calls, batch_log, stop_by_duplicates, put_log>>

\* The scripted server of the two-page scenario. HIGHEST: page 1 has three
\* decodable entries of distinct reviewers and two undecodable ones, page 2
\* has five entries of the reviewers of page 1, both advertise ScenarioToken.
\* LOWEST gets a failure or an envelope without entries and cursor.
ScenarioToken == CHOOSE t \in Tokens : TRUE
ScenarioPage1 ==
    MkBody(TRUE, "list", 3, ScenarioToken,
           <<Run(Rev(1), 1), Run(Malformed, 1), Run(Rev(2), 1), Run(Rev(3), 1),
             Run(Malformed, 1)>>)
ScenarioPage2 ==
    MkBody(TRUE, "list", 3, ScenarioToken,
           <<Run(Rev(3), 1), Run(Rev(1), 2), Run(Rev(2), 2)>>)
ScenarioEmpty == MkBody(TRUE, "list", 3, NoToken, <<>>)

\* what session.get can bring for a request of direction d with this token:
\* <<outcome, body>>
Responses(srv, d, token) ==
    IF srv = "any"
    THEN {<<"non200", NoBody>>, <<"exception", NoBody>>} \cup { <<"ok", b>> : b \in Bodies }
    ELSE IF d = "HIGHEST"
         THEN {<<"ok", IF token = NoToken THEN ScenarioPage1 ELSE ScenarioPage2>>}
         ELSE {<<"non200", NoBody>>, <<"exception", NoBody>>, <<"ok", ScenarioEmpty>>}

\* mutant: a failed request ends both producers
ProducerBreak_Both(pcs, d) == [e \in Directions |-> "finished"]

\* break out of the producer's loop (lines 335, 350, 356, 368)
ProducerBreak(pcs, d) == [pcs EXCEPT ![d] = "finished"]

\* producer, lines 332-337 and 366-368: the response arrives. A status other
\* than 200 and a transport exception (a timeout included) leave the loop.
ProducerResponse(d) ==
    /\ scraper = "optimized"
    /\ ppc[d] = "inflight"
    /\ \E resp \in Responses(server, d, ptoken[d]) :
          IF resp[1] = "ok"
          THEN /\ pbody' = [pbody EXCEPT ![d] = resp[2]]
               /\ ppc' = [ppc EXCEPT ![d] = "put"]
          ELSE /\ ppc' = ProducerBreak(ppc, d)
               /\ UNCHANGED pbody
    /\ UNCHANGED <<scraper, server, fnvars, v3vars, max_queue_size, queue, unfinished_tasks, stop_event, all_reviews,
                   seen_reviewer_ids, duplicate_count, used_tokens, stats, ptoken,
                   ppage, cpc, citem, run_pc, requests, put_count, handled,
                   parse_calls, batch_log, stop_by_duplicates, late_requests, put_log>>

\* mutant: the cursor is looked for where the envelope does not carry it
QuickToken_WrongIndex(body) ==
    IF strip_rpc_prefix(body).shape = "notjson" THEN "error" ELSE "none"

\* the token the producer reads from the body (lines 343-346); "error" when
\* reading it raises
QuickToken(body) ==
    LET data == strip_rpc_prefix(body)
    IN IF data.shape = "notjson" THEN "error"
       ELSE IF data.shape = "notlist" THEN "none"
       ELSE IF data.len > 1 /\ data.token # NoToken THEN "token" ELSE "none"

\* mutant: the loop guard is missing
TokenUsable_Always(token, used) == TRUE

\* line 348: the producer goes on with the advertised token
TokenUsable(token, used) == token \notin used

\* producer, lines 340-364: put() completes (the queue has room), then the
\* token of the body decides whether the loop goes on.
ProducerPut(d) ==
    /\ scraper = "optimized"
    /\ ppc[d] = "put"
    /\ Len(queue) < max_queue_size
    /\ queue' = Append(queue, <<pbody[d], d, put_count + 1>>)
    /\ unfinished_tasks' = unfinished_tasks + 1
    /\ put_count' = put_count + 1
    /\ put_log' = Append(put_log, d)
    /\ pbody' = [pbody EXCEPT ![d] = NoBody]
    /\ LET body == pbody[d]
           q == QuickToken(body)
       IN IF q = "error"
          THEN /\ ppc' = ProducerBreak(ppc, d)
               /\ UNCHANGED <<ptoken, used_tokens, stats, ppage>>
          ELSE IF q = "none"
          THEN /\ ppc' = ProducerBreak(ppc, d)
               /\ ptoken' = [ptoken EXCEPT ![d] = NoToken]
               /\ UNCHANGED <<used_tokens, stats, ppage>>
          ELSE IF ~TokenUsable(body.token, used_tokens)
          THEN /\ ppc' = ProducerBreak(ppc, d)
               /\ ptoken' = [ptoken EXCEPT ![d] = body.token]
               /\ UNCHANGED <<used_tokens, stats, ppage>>
          ELSE /\ ptoken' = [ptoken EXCEPT ![d] = body.token]
               /\ used_tokens' = used_tokens \cup {body.token}
               /\ stats' = [stats EXCEPT ![StatsKey(d)].pages = ppage[d]]
               /\ ppage' = [ppage EXCEPT ![d] = @ + 1]
               /\ ppc' = [ppc EXCEPT ![d] = "loop"]
    /\ UNCHANGED <<scraper, server, fnvars, v3vars, max_queue_size, stop_event, all_reviews, seen_reviewer_ids,
                   duplicate_count, cpc, citem, run_pc, requests, handled,
                   parse_calls, batch_log, stop_by_duplicates, late_requests>>

\* --------------------------------------------------------------- consumer
\* consumer, line 376: the loop test
ConsumerExit(stop, q) == stop /\ q = <<>>

\* consumer, lines 376-384: the consumer leaves, by the loop test or by a
\* get() that timed out with the event set. (A timeout with the event clear
\* goes back to the loop test and changes nothing.)
ConsumerLeave(w) ==
    /\ scraper = "optimized"
    /\ cpc[w] = "get"
    /\ ConsumerExit(stop_event, queue)
    /\ cpc' = [cpc EXCEPT ![w] = "finished"]
    /\ UNCHANGED <<scraper, server, fnvars, v3vars, max_queue_size, queue, unfinished_tasks, stop_event, all_reviews,
                   seen_reviewer_ids, duplicate_count, used_tokens, stats, ppc,
                   ptoken, ppage, pbody, citem, run_pc, requests, put_count,
                   handled, parse_calls, batch_log, stop_by_duplicates, late_requests, put_log>>

\* consumer, line 380: queue.get() returns the oldest item. wait_for may run
\* get() in a task of its own, so other tasks can run before parse_batch starts.
ConsumerGet(w) ==
    /\ scraper = "optimized"
    /\ cpc[w] = "get"
    /\ queue # <<>>
    /\ citem' = [citem EXCEPT ![w] = Head(queue)]
    /\ queue' = Tail(queue)
    /\ cpc' = [cpc EXCEPT ![w] = "process"]
    /\ UNCHANGED <<scraper, server, fnvars, v3vars, max_queue_size, unfinished_tasks, stop_event, all_reviews,
                   seen_reviewer_ids, duplicate_count, used_tokens, stats, ppc,
                   ptoken, ppage, pbody, run_pc, requests, put_count, handled,
                   parse_calls, batch_log, stop_by_duplicates, late_requests, put_log>>

\* consumer, lines 387-395: parse_batch, extend, task_done, in one step
ConsumerProcess(w) ==
    /\ scraper = "optimized"
    /\ cpc[w] = "process"
    /\ LET body == citem[w][1]
           direction == citem[w][2]
           r == ParseBatch(body, seen_reviewer_ids, duplicate_count)
       IN /\ seen_reviewer_ids' = r.seen
          /\ duplicate_count' = r.total
          /\ stats' = IF r.counted
                      THEN [stats EXCEPT ![StatsKey(direction)].reviews = @ + Len(r.parsed),
                                         ![StatsKey(direction)].duplicates = @ + r.dups]
                      ELSE stats
          /\ stop_event' = SetEvent(stop_event, r.raise)
          /\ stop_by_duplicates' = (stop_by_duplicates \/ r.raise)
          /\ batch_log' = IF r.counted THEN batch_log \cup {<<body.entries, seen_reviewer_ids, r.raise>>}
                          ELSE batch_log
          /\ all_reviews' = all_reviews \o
                [i \in 1..Len(r.parsed) |->
                    [reviewerId |-> r.parsed[i], sortDirection |-> direction]]
    /\ handled' = handled \cup {citem[w][3]}
    /\ parse_calls' = parse_calls + 1
    /\ unfinished_tasks' = unfinished_tasks - 1
    /\ citem' = [citem EXCEPT ![w] = NoItem]
    /\ cpc' = [cpc EXCEPT ![w] = "get"]
    /\ UNCHANGED <<scraper, server, fnvars, v3vars, max_queue_size, queue, used_tokens, ppc, ptoken,
                   ppage, pbody, run_pc, requests, put_count, late_requests, put_log>>

\* -------------------------------------------------------------------- run
\* run, line 438: gather(producer_highest, producer_lowest) returns
\* mutant: run goes on as soon as one producer has finished
ProducersDone_Any(pcs) == \E d \in Directions : pcs[d] = "finished"

\* line 438: gather() over both producers
ProducersDone(pcs) == \A d \in Directions : pcs[d] = "finished"

RunProducersDone ==
    /\ scraper = "optimized"
    /\ run_pc = "gather_producers"
    /\ ProducersDone(ppc)
    /\ run_pc' = "join"
    /\ UNCHANGED <<scraper, server, fnvars, v3vars, max_queue_size, queue, unfinished_tasks, stop_event, all_reviews,
                   seen_reviewer_ids, duplicate_count, used_tokens, stats, ppc,
                   ptoken, ppage, pbody, cpc, citem, requests, put_count, handled,
                   parse_calls, batch_log, stop_by_duplicates, late_requests, put_log>>

\* run, lines 441-444: queue.join() returns, the event is set
RunJoined ==
    /\ scraper = "optimized"
    /\ run_pc = "join"
    /\ unfinished_tasks = 0
    /\ stop_event' = TRUE
    /\ run_pc' = "gather_consumers"
    /\ UNCHANGED <<scraper, server, fnvars, v3vars, max_queue_size, queue, unfinished_tasks, all_reviews,
                   seen_reviewer_ids, duplicate_count, used_tokens, stats, ppc,
                   ptoken, ppage, pbody, cpc, citem, requests, put_count, handled,
                   parse_calls, batch_log, stop_by_duplicates, late_requests, put_log>>

\* run, lines 445-448: the consumers have finished, run returns
RunReturn ==
    /\ scraper = "optimized"
    /\ run_pc = "gather_consumers"
    /\ \A w \in Workers : cpc[w] = "finished"
    /\ run_pc' = "done"
    /\ UNCHANGED <<scraper, server, fnvars, v3vars, max_queue_size, queue, unfinished_tasks, stop_event, all_reviews,
                   seen_reviewer_ids, duplicate_count, used_tokens, stats, ppc,
                   ptoken, ppage, pbody, cpc, citem, requests, put_count, handled,
                   parse_calls, batch_log, stop_by_duplicates, late_requests, put_log>>

\* ------------------------------------------ DualAsyncGoogleMapsReviewScraper
\* what a page of the v3 scraper yields: the tokens extract_caesy_tokens finds
\* (distinct, in order of appearance) and the review sections
V3TokenLists ==
    {<<>>} \cup { <<t>> : t \in Tokens } \cup { [i \in 1..n |-> i] : n \in 1..NumTokens }

V3EntryLists ==
    {<<>>}
    \cup { <<Run(Rev(r), 1), Run(Malformed, 1)>> : r \in ReviewerIds }
    \cup { <<Run(Rev(1), v3_duplicate_limit + 2)>> }

V3Pages == { [tokens |-> tk, entries |-> e] : tk \in V3TokenLists, e \in V3EntryLists }

RECURSIVE get_next_unused_token(_, _)
get_next_unused_token(available_tokens, used_tokens_set) ==
    IF available_tokens = <<>> THEN NoToken
    ELSE IF Head(available_tokens) \notin used_tokens_set THEN Head(available_tokens)
    ELSE get_next_unused_token(Tail(available_tokens), used_tokens_set)

\* one pass of the for loop of parse_reviews_from_response over a section;
\* st = [seen, reviews, dups, total, stop, broken], broken once the loop was left
V3Section(st, section) ==
    IF st.broken \/ section.kind # "review" THEN st
    ELSE IF st.stop THEN [st EXCEPT !.broken = TRUE]
    ELSE IF section.reviewerId \in st.seen
         THEN LET st1 == [st EXCEPT !.dups = @ + 1, !.total = @ + 1]
              IN IF st1.dups > v3_duplicate_limit
                 THEN [st1 EXCEPT !.stop = TRUE, !.broken = TRUE]
                 ELSE st1
         ELSE [st EXCEPT !.seen = @ \cup {section.reviewerId},
                         !.reviews = Append(@, section.reviewerId)]

\* the for loop: V3Section over the sections in order (the sequence is split
\* in halves to keep the evaluation shallow)
RECURSIVE V3SectionLoop(_, _)
V3SectionLoop(sections, st) ==
    IF sections = <<>> THEN st
    ELSE IF Len(sections) = 1 THEN V3Section(st, sections[1])
    ELSE LET h == Len(sections) \div 2
             left == V3SectionLoop(SubSeq(sections, 1, h), st)
         IN IF left.broken THEN left
            ELSE V3SectionLoop(SubSeq(sections, h + 1, Len(sections)), left)

parse_reviews_from_response(page, seen, dupcount, stop) ==
    V3SectionLoop(Entries(page.entries),
                  [seen |-> seen, reviews |-> <<>>, dups |-> 0, total |-> dupcount,
                   stop |-> stop, broken |-> FALSE])

\* scrape_direction, lines 850-857: the loop test, the page statistic and
\* the request for the current token
V3Loop(d) ==
    /\ scraper = "v3"
    /\ v3_pc[d] = "loop"
    /\ IF v3_stop_scraping
       THEN /\ v3_pc' = [v3_pc EXCEPT ![d] = "finished"]
            /\ UNCHANGED <<v3_stats, v3_requests>>
       ELSE /\ v3_pc' = [v3_pc EXCEPT ![d] = "inflight"]
            /\ v3_stats' = [v3_stats EXCEPT ![d].pages = v3_page[d]]
            /\ v3_requests' = [v3_requests EXCEPT ![d] = Append(@, v3_token[d])]
    /\ UNCHANGED <<scraper, server, fnvars, optvars, v3_max_pages, v3_all_reviews, v3_seen_reviewer_ids,
                   v3_duplicate_count, v3_stop_scraping, v3_used_tokens, v3_token,
                   v3_page, v3_main_pc>>

\* scrape_direction, lines 857-860: make_request returned None
V3Failed(d) ==
    /\ scraper = "v3"
    /\ v3_pc[d] = "inflight"
    /\ v3_pc' = [v3_pc EXCEPT ![d] = "finished"]
    /\ UNCHANGED <<scraper, server, fnvars, optvars, v3_max_pages, v3_all_reviews, v3_seen_reviewer_ids,
                   v3_duplicate_count, v3_stop_scraping, v3_used_tokens, v3_stats,
                   v3_token, v3_page, v3_main_pc, v3_requests>>

\* lines 893-896: the token just used is marked when the next one is taken
V3MarkUsed(used, current) == IF current # NoToken THEN used \cup {current} ELSE used

\* the caller keeps the records parse_reviews_from_response returned (lines 865-875)
V3Keeps(new_reviews, stop) == new_reviews # <<>> /\ ~stop

\* scrape_direction, lines 862-912: the page is parsed, its records are added
\* and the next token is chosen
V3Response(d) ==
    /\ scraper = "v3"
    /\ v3_pc[d] = "inflight"
    /\ \E page \in V3Pages :
          LET r == parse_reviews_from_response(page, v3_seen_reviewer_ids,
                                               v3_duplicate_count, v3_stop_scraping)
              next_token == get_next_unused_token(page.tokens, v3_used_tokens[d])
          IN /\ v3_seen_reviewer_ids' = r.seen
             /\ v3_duplicate_count' = r.total
             /\ v3_stop_scraping' = r.stop
             /\ v3_stats' = [v3_stats EXCEPT ![d].reviews = @ + Len(r.reviews),
                                             ![d].duplicates = @ + r.dups]
             /\ IF ~V3Keeps(r.reviews, r.stop)
                THEN /\ v3_pc' = [v3_pc EXCEPT ![d] = "finished"]
                     /\ UNCHANGED <<v3_all_reviews, v3_used_tokens, v3_token, v3_page>>
                ELSE /\ v3_all_reviews' = v3_all_reviews \o
                            [i \in 1..Len(r.reviews) |->
                                [reviewerId |-> r.reviews[i], sortDirection |-> d]]
                     /\ IF next_token = NoToken
                        THEN /\ v3_pc' = [v3_pc EXCEPT ![d] = "finished"]
                             /\ UNCHANGED <<v3_used_tokens, v3_token, v3_page>>
                        ELSE /\ v3_used_tokens' =
                                    [v3_used_tokens EXCEPT ![d] = V3MarkUsed(@, v3_token[d])]
                             /\ v3_token' = [v3_token EXCEPT ![d] = next_token]
                             /\ v3_page' = [v3_page EXCEPT ![d] = @ + 1]
                             /\ v3_pc' = [v3_pc EXCEPT ![d] = "loop"]
    /\ UNCHANGED <<scraper, server, fnvars, optvars, v3_max_pages, v3_main_pc, v3_requests>>

\* scrape_all_reviews_dual, line 970: both directions have finished
V3Gathered ==
    /\ scraper = "v3"
    /\ v3_main_pc = "gather"
    /\ \A d \in Directions : v3_pc[d] = "finished"
    /\ v3_main_pc' = "done"
    /\ UNCHANGED <<scraper, server, fnvars, optvars, v3_max_pages, v3_all_reviews, v3_seen_reviewer_ids,
                   v3_duplicate_count, v3_stop_scraping, v3_used_tokens, v3_stats,
                   v3_pc, v3_token, v3_page, v3_requests>>

\* ---------------------------------------------------------- specification
Next ==
    \/ \E d \in Directions : ProducerLoop(d)
    \/ \E d \in Directions : ProducerResponse(d)
    \/ \E d \in Directions : ProducerPut(d)
    \/ \E w \in Workers : ConsumerGet(w)
    \/ \E w \in Workers : ConsumerLeave(w)
    \/ \E w \in Workers : ConsumerProcess(w)
    \/ RunProducersDone
    \/ RunJoined
    \/ RunReturn
    \/ \E d \in Directions : V3Loop(d)
    \/ \E d \in Directions : V3Failed(d)
    \/ \E d \in Directions : V3Response(d)
    \/ V3Gathered

Spec == Init /\ [][Next]_vars

\* The optimized scraper run against the scripted server of the scenario.
ScenarioInit ==
    /\ scraper = "optimized"
    /\ server = "scenario"
    /\ fn_in = NoCall
    /\ fn_out = NoResult
    /\ max_queue_size \in 1..MaxQueueSize
    /\ v3_max_pages = NoLimit
    /\ OptInit
    /\ V3Init

ScenarioNext ==
    \/ \E d \in Directions : ProducerLoop(d)
    \/ \E d \in Directions : ProducerResponse(d)
    \/ \E d \in Directions : ProducerPut(d)
    \/ \E w \in Workers : ConsumerGet(w)
    \/ \E w \in Workers : ConsumerLeave(w)
    \/ \E w \in Workers : ConsumerProcess(w)
    \/ RunProducersDone
    \/ RunJoined
    \/ RunReturn

ScenarioSpec == ScenarioInit /\ [][ScenarioNext]_vars

\* ------------------------------------------------------ decoder functions
\* What a decoder function hands back: None, a value, or an exception that
\* leaves the function.
ReturnsNone == <<"None">>
Raises == <<"raise">>
Returns(v) == <<"value", v>>

\* An opaque review entry (a list), by what fast_parse_review looks at:
\*   has_meta  review_data[0] exists
\*   stars     what sits at meta[2][0][0]: "absent" when the path does not
\*             exist, "null" for a JSON null, "bad" for a value int() rejects
\*   user      the user_id of the block _find_user_meta finds, 0 when none
\*   likes     item[1] of the first [1, n] list: "absent", "bad" when int() rejects it
\*   text      the text of the text bucket, "" when there is none
\*   micros    meta[1][2] holds a timestamp (else the date defaults to now)
OpaqueEntries ==
    [has_meta : BOOLEAN,
     stars : {"absent", "null", "bad", "0", "1", "5", "7"},
     user : 0..NumReviewers,
     likes : {"absent", "bad", "3"},
     text : {"", "Great"},
     micros : BOOLEAN]

\* the ratings the provider defines
ValidStars == {"1", "2", "3", "4", "5"}

\* the body of the try block of fast_parse_review, lines 182-255
FastParseTry(review_data) ==
    IF ~review_data.has_meta THEN Raises                         \* line 182
    ELSE IF review_data.stars \in {"absent", "null"} THEN ReturnsNone   \* 185-187
    ELSE IF review_data.user = 0 THEN ReturnsNone                 \* 207-209
    ELSE IF review_data.likes = "bad" THEN Raises                 \* 216, 164
    ELSE IF review_data.stars = "bad" THEN Raises                 \* 240
    ELSE Returns([reviewerId |-> review_data.user,
                  stars |-> review_data.stars,
                  text |-> review_data.text,
                  likesCount |-> IF review_data.likes = "absent" THEN "0"
                                 ELSE review_data.likes,
                  dated |-> review_data.micros,
                  extractionConfidence |-> 100])                  \* line 251

\* lines 257-259: except Exception: return None
CatchAll(outcome) == IF outcome = Raises THEN ReturnsNone ELSE outcome

\* fast_parse_review(review_data, direction), lines 179-259
FastParseReview(review_data) == CatchAll(FastParseTry(review_data))

CallFastParseReview ==
    /\ scraper = "none"
    /\ fn_in[1] = "fast_parse_review"
    /\ fn_out = NoResult
    /\ fn_out' = FastParseReview(fn_in[2])
    /\ UNCHANGED <<scraper, server, fn_in, optvars, v3vars>>

\* A review as extract_single_review builds it, by what calculate_confidence
\* looks at: whether user_info has a name and a user_id, the length of
\* review_text (NoText when the key is missing), rating (NoRating for None)
\* and whether date_info is non-empty.
NoText == -1
NoRating == 0
long_text_length == 50          \* dual_async_scraper_v3.py, calculate_confidence

DecodedReviews ==
    [name : BOOLEAN,
     user_id : BOOLEAN,
     text_len : {NoText, 0, 1, long_text_length, long_text_length + 1},
     rating : {NoRating, 1, 5},
     date_info : BOOLEAN]

Min(a, b) == IF a <= b THEN a ELSE b

\* mutant: the date counts as much as the rating
calculate_confidence_DateWeight(review) ==
    Min((IF review.name THEN 15 ELSE 0) + (IF review.user_id THEN 15 ELSE 0)
        + (IF review.text_len > 0 THEN 25 ELSE 0)
        + (IF review.text_len > long_text_length THEN 15 ELSE 0)
        + (IF review.rating # NoRating THEN 20 ELSE 0)
        + (IF review.date_info THEN 20 ELSE 0), 100)

\* mutant: the text of the review is not looked at
calculate_confidence_TextIgnored(review) ==
    Min((IF review.name THEN 15 ELSE 0) + (IF review.user_id THEN 15 ELSE 0)
        + (IF review.rating # NoRating THEN 20 ELSE 0)
        + (IF review.date_info THEN 10 ELSE 0), 100)

\* calculate_confidence(review), lines 662-686, in percent
calculate_confidence(review) ==
    LET user == (IF review.name THEN 15 ELSE 0) + (IF review.user_id THEN 15 ELSE 0)
        content == IF review.text_len > 0
                   THEN 25 + (IF review.text_len > long_text_length THEN 15 ELSE 0)
                   ELSE 0
        rating == IF review.rating # NoRating THEN 20 ELSE 0
        date == IF review.date_info THEN 10 ELSE 0
    IN Min(user + content + rating + date, 100)

CallCalculateConfidence ==
    /\ scraper = "none"
    /\ fn_in[1] = "calculate_confidence"
    /\ fn_out = NoResult
    /\ fn_out' = Returns(calculate_confidence(fn_in[2]))
    /\ UNCHANGED <<scraper, server, fn_in, optvars, v3vars>>

\* A response text, character by character up to the JSON document: head is
\* what precedes the document, doc what json_loads makes of the document
\* (shape "notjson": no JSON at all). No document starts with a character of
\* the RPC prefix.
RpcPrefix == <<")", "]", "}", "'">>
JsonWhitespace == {" ", "\n"}

JsonDocs == { [b EXCEPT !.prefix = FALSE] : b \in Bodies }

TextHeads ==
    { <<>>, <<"\n">>, RpcPrefix, RpcPrefix \o <<"\n">>, RpcPrefix \o RpcPrefix,
      <<")", "]", "}">>, <<"\n">> \o RpcPrefix }

ResponseTexts == [head : TextHeads, doc : JsonDocs]

\* mutant: the prefix is recognised only together with the newline after it
strip_rpc_prefix_text_WithNewline(response_text) ==
    IF /\ Len(response_text.head) >= 5
       /\ SubSeq(response_text.head, 1, 5) = RpcPrefix \o <<"\n">>
    THEN [response_text EXCEPT !.head = SubSeq(@, 6, Len(@))]
    ELSE response_text

\* strip_rpc_prefix(response_text), lines 116-121, on the characters
strip_rpc_prefix_text(response_text) ==
    IF /\ Len(response_text.head) >= 4
       /\ SubSeq(response_text.head, 1, 4) = RpcPrefix
    THEN [response_text EXCEPT !.head = SubSeq(@, 5, Len(@))]
    ELSE response_text

\* json_loads: leading whitespace is skipped, anything else before the
\* document is a decode error
json_loads(text) ==
    IF \E i \in 1..Len(text.head) : text.head[i] \notin JsonWhitespace THEN Raises
    ELSE IF text.doc.shape = "notjson" THEN Raises
    ELSE Returns(text.doc)

\* parse_batch, lines 263-277 and 314-316: the cursor and the entry list it
\* reads from the body; ok is FALSE where it returns [], None
EnvelopeOf(response_body) ==
    LET data == json_loads(strip_rpc_prefix_text(response_body))
        failure == [ok |-> FALSE, cursor |-> NoToken, entries |-> <<>>]
    IN IF data = Raises THEN failure
       ELSE IF data[2].shape # "list" \/ data[2].len < 3 THEN failure
       ELSE [ok |-> TRUE, cursor |-> data[2].token, entries |-> Entries(data[2].entries)]

CallEnvelopeOf ==
    /\ scraper = "none"
    /\ fn_in[1] = "parse_batch"
    /\ fn_out = NoResult
    /\ fn_out' = Returns(EnvelopeOf(fn_in[2]))
    /\ UNCHANGED <<scraper, server, fn_in, optvars, v3vars>>

\* the token lists extract_caesy_tokens can return (no token twice) and the
\* used-token sets get_next_unused_token is called with
AdvertisedLists ==
    UNION { { q \in [1..n -> 1..MaxAdvertised] : \A i, j \in 1..n : i # j => q[i] # q[j] }
            : n \in 0..MaxAdvertised }

TokenCalls == [available_tokens : AdvertisedLists, used_tokens_set : SUBSET (1..MaxAdvertised)]

CallGetNextUnusedToken ==
    /\ scraper = "none"
    /\ fn_in[1] = "get_next_unused_token"
    /\ fn_out = NoResult
    /\ fn_out' = Returns(get_next_unused_token(fn_in[2].available_tokens,
                                               fn_in[2].used_tokens_set))
    /\ UNCHANGED <<scraper, server, fn_in, optvars, v3vars>>

\* ---- the walkers of fast_parse_review over the nested lists of an entry
\* A JSON value of the entry: a number, a string or a list of values.
IntLeaf(n) == [kind |-> "int", num |-> n, str |-> "", items |-> <<>>]
StrLeaf(t) == [kind |-> "str", num |-> 0, str |-> t, items |-> <<>>]
ListOf(q) == [kind |-> "list", num |-> 0, str |-> "", items |-> q]

SeqsUpTo(S, n) == UNION { [1..k -> S] : k \in 0..n }

\* lists of leaves, and lists of leaves and of lists of leaves
FlatLists(leaves) == { ListOf(q) : q \in SeqsUpTo(leaves, MaxWidth) }
NestedLists(leaves) ==
    { ListOf(q) : q \in SeqsUpTo(leaves \cup FlatLists(leaves), MaxWidth) }

\* int(item[1]): the number of a number, a raise for a word or a list
IntOf(value) ==
    IF value.kind = "int" THEN Returns(value.num) ELSE Raises

\* _find_likes: the loop over the items of block from item i on
RECURSIVE find_likes(_), find_likes_from(_, _)
find_likes_from(block, i) ==
    IF i > Len(block.items) THEN Returns(0)                         \* line 169
    ELSE LET item == block.items[i] IN
         IF /\ item.kind = "list"
            /\ Len(item.items) = 2
            /\ item.items[1] = IntLeaf(1)
         THEN IntOf(item.items[2])                                   \* line 164
         ELSE IF item.kind = "list"
              THEN LET n == find_likes(item)                         \* line 166
                   IN IF n # ReturnsNone THEN n                      \* line 167
                      ELSE find_likes_from(block, i + 1)
              ELSE find_likes_from(block, i + 1)

find_likes(block) ==
    IF block.kind = "list" THEN find_likes_from(block, 1) ELSE Returns(0)

LikesLeaves == {IntLeaf(1), IntLeaf(5)}
LikesBlocks == NestedLists(LikesLeaves)

CallFindLikes ==
    /\ scraper = "none"
    /\ fn_in[1] = "_find_likes"
    /\ fn_out = NoResult
    /\ fn_out' = find_likes(fn_in[2])
    /\ UNCHANGED <<scraper, server, fn_in, optvars, v3vars>>

\* _long_strings: the strings longer than 40 characters, in the order of a
\* pre-order walk of the lists
RECURSIVE long_strings(_), long_strings_from(_, _)
long_strings_from(block, i) ==
    IF i > Len(block.items) THEN <<>>
    ELSE long_strings(block.items[i]) \o long_strings_from(block, i + 1)

long_strings(block) ==
    IF block.kind = "list" THEN long_strings_from(block, 1)
    ELSE IF block.kind = "str" /\ Len(block.str) > 40 THEN <<block.str>>
    ELSE <<>>

\* str.startswith
startswith(t, prefix) ==
    Len(t) >= Len(prefix) /\ SubSeq(t, 1, Len(prefix)) = prefix

IsImageUrl(t) ==
    \/ startswith(t, "https://lh3.googleusercontent.com/geougc-cs")
    \/ startswith(t, "https://lh3.googleusercontent.com/places/")

\* the images list of fast_parse_review
images(meta) == SelectSeq(long_strings(meta), IsImageUrl)

ImageLeaves ==
    {StrLeaf("https://lh3.googleusercontent.com/geougc-cs/photo-a"),
     StrLeaf("https://lh3.googleusercontent.com/places/photo-b"),
     StrLeaf("https://lh3.googleusercontent.com/a-/profile-photo")}
ImageBlocks == NestedLists(ImageLeaves)

CallImages ==
    /\ scraper = "none"
    /\ fn_in[1] = "images"
    /\ fn_out = NoResult
    /\ fn_out' = Returns(images(fn_in[2]))
    /\ UNCHANGED <<scraper, server, fn_in, optvars, v3vars>>

\* A decoder function is called on one input.
FnInit ==
    /\ scraper = "none"
    /\ server = "any"
    /\ \/ \E e \in OpaqueEntries : fn_in = <<"fast_parse_review", e>>
       \/ \E r \in DecodedReviews : fn_in = <<"calculate_confidence", r>>
       \/ \E t \in ResponseTexts : fn_in = <<"parse_batch", t>>
       \/ \E c \in TokenCalls : fn_in = <<"get_next_unused_token", c>>
       \/ \E b \in LikesBlocks : fn_in = <<"_find_likes", b>>
       \/ \E b \in ImageBlocks : fn_in = <<"images", b>>
    /\ fn_out = NoResult
    /\ max_queue_size = 1
    /\ v3_max_pages = NoLimit
    /\ OptInit
    /\ V3Init

FnNext ==
    \/ CallFastParseReview
    \/ CallCalculateConfidence
    \/ CallEnvelopeOf
    \/ CallGetNextUnusedToken
    \/ CallFindLikes
    \/ CallImages

FnSpec == FnInit /\ [][FnNext]_vars

\* ------------------------------------------------------------ properties
\* C1: all_reviews never holds two records with the same reviewerId, whatever
\* the interleaving of the producers and the consumers.
C1_UniqueReviewers ==
    \A i, j \in 1..Len(all_reviews) :
        i # j => all_reviews[i].reviewerId # all_reviews[j].reviewerId

\* a reviewer that one direction delivered and the other delivered again
C1_Witness ==
    \E d1, d2 \in Directions :
        /\ d1 # d2
        /\ stats[d1].reviews > 0
        /\ stats[d2].reviews = 0
        /\ stats[d2].duplicates > 0
        /\ all_reviews # <<>>

\* No task of the optimized scraper can take a step: every producer has
\* finished or waits in put() on a full queue, every consumer has finished or
\* waits in get() on an empty queue with the event clear, and run() waits.
Quiescent ==
    /\ \A d \in Directions :
          \/ ppc[d] = "finished"
          \/ ppc[d] = "put" /\ Len(queue) >= max_queue_size
    /\ \A w \in Workers :
          \/ cpc[w] = "finished"
          \/ cpc[w] = "get" /\ queue = <<>> /\ ~stop_event
    /\ run_pc = "gather_producers" => ~ProducersDone(ppc)
    /\ run_pc = "join" => unfinished_tasks # 0
    /\ run_pc = "gather_consumers" => \E w \in Workers : cpc[w] # "finished"

\* Quiescent is exactly the absence of a next step
QuiescentIsNoStep ==
    scraper = "optimized" => (Quiescent <=> ~ENABLED Next)

\* C2: run always completes: a run of the optimized scraper never comes to
\* rest anywhere but after run() has returned.
C2_RunCompletes ==
    (scraper = "optimized" /\ Quiescent) => run_pc = "done"

\* C3: no cursor value is submitted in two requests, and a submitted cursor was
\* added to used_tokens before its request was issued.
RequestSlots == { <<d, i>> : d \in Directions, i \in 1..(NumTokens + 2) }

C3_NoCursorTwice ==
    /\ \A a, b \in RequestSlots :
          (/\ a # b
           /\ a[2] <= Len(requests[a[1]])
           /\ b[2] <= Len(requests[b[1]])
           /\ requests[a[1]][a[2]] # NoToken)
          => requests[a[1]][a[2]] # requests[b[1]][b[2]]
    /\ \A d \in Directions :
          /\ \A i \in 1..Len(requests[d]) :
                requests[d][i] # NoToken => requests[d][i] \in used_tokens
          /\ (ppc[d] = "loop" /\ ptoken[d] # NoToken) => ptoken[d] \in used_tokens

\* a direction was advertised the cursor it had already submitted, and stopped
C3_Witness ==
    \E d \in Directions :
        /\ ppc[d] = "finished"
        /\ Len(requests[d]) = 2
        /\ requests[d][2] # NoToken
        /\ ptoken[d] = requests[d][2]

\* C4: one direction of the v3 scraper never issues two requests carrying the
\* same continuation token.
C4_V3NoTokenTwice ==
    \A d \in Directions :
        \A i, j \in 1..Len(v3_requests[d]) :
            (i # j /\ v3_requests[d][i] # NoToken)
            => v3_requests[d][i] # v3_requests[d][j]

C6_V3AcceptedReturned ==
    v3_main_pc = "done" =>
        \A r \in v3_seen_reviewer_ids :
            \E i \in 1..Len(v3_all_reviews) : v3_all_reviews[i].reviewerId = r

\* C7: no producer waits in put() on a full queue when no consumer is left.
C7_NoProducerStranded ==
    ~ (\E d \in Directions :
          /\ ppc[d] = "put"
          /\ Len(queue) >= max_queue_size
          /\ \A w \in Workers : cpc[w] = "finished")

\* the decoded entries of a batch whose reviewerId was already seen when the
\* entry was looked at
BatchDuplicateCount(runs, seen) ==
    LET e == Entries(runs)
    IN Cardinality({ i \in 1..Len(e) :
            /\ e[i].kind = "review"
            /\ \/ e[i].reviewerId \in seen
               \/ \E j \in 1..(i - 1) :
                     e[j].kind = "review" /\ e[j].reviewerId = e[i].reviewerId })

\* C8: parse_batch raises the stop signal for a batch exactly when the
\* duplicates of that batch alone exceed duplicate_threshold.
C8_PerBatchThreshold ==
    /\ \A b \in batch_log :
          b[3] <=> (BatchDuplicateCount(b[1], b[2]) > duplicate_threshold)
    /\ stop_by_duplicates <=> (\E b \in batch_log : b[3])

\* more duplicates than the threshold over several batches, and no signal
C8_Witness ==
    /\ duplicate_count > duplicate_threshold
    /\ ~stop_event
    /\ Cardinality(batch_log) >= 2

\* C9: once the duplicate threshold has raised the signal no producer starts
\* a request, and each producer reaches its finished state: the run does not
\* come to rest with a producer that has not finished.
C9_StopWithinOnePage ==
    stop_by_duplicates =>
        /\ late_requests = 0
        /\ Quiescent => \A d \in Directions : ppc[d] = "finished"

\* C10: the signal is never cleared, seen_reviewer_ids never loses an element
\* and duplicate_count never decreases, in either scraper.
C10_MonotoneCrawlState ==
    [][ /\ stop_event => stop_event'
        /\ seen_reviewer_ids \subseteq seen_reviewer_ids'
        /\ duplicate_count <= duplicate_count'
        /\ v3_stop_scraping => v3_stop_scraping'
        /\ v3_seen_reviewer_ids \subseteq v3_seen_reviewer_ids'
        /\ v3_duplicate_count <= v3_duplicate_count' ]_vars

\* the signal raised by parse_batch and raised again by run
C10_Witness ==
    /\ stop_by_duplicates
    /\ run_pc = "done"
    /\ duplicate_count > duplicate_threshold
    /\ seen_reviewer_ids # {}

\* the producer of d leaves its loop on a page-level failure in this step: a
\* status other than 200 or a transport exception, or a body it reads no
\* cursor from
PageFailureStep(d) ==
    /\ ppc'[d] = "finished"
    /\ \/ ppc[d] = "inflight"
       \/ ppc[d] = "put" /\ QuickToken(pbody[d]) # "token"

\* C11: a page-level failure of one direction ends that direction's producer
\* for good (no retry) and touches nothing else: the stop signal stays as it
\* was (it is raised only by the duplicate threshold or by run once both
\* producers are through), and the other producer's position, cursor and
\* requests and the accepted records are unchanged.
C11_FailureIsLocal ==
    [][ /\ \A d \in Directions :
              /\ PageFailureStep(d) =>
                    /\ stop_event' = stop_event
                    /\ used_tokens' = used_tokens
                    /\ seen_reviewer_ids' = seen_reviewer_ids
                    /\ all_reviews' = all_reviews
                    /\ \A e \in Directions \ {d} :
                          /\ ppc'[e] = ppc[e]
                          /\ ptoken'[e] = ptoken[e]
                          /\ pbody'[e] = pbody[e]
                          /\ requests'[e] = requests[e]
              /\ ppc[d] = "finished" =>
                    (ppc'[d] = "finished" /\ requests'[d] = requests[d])
        /\ (stop_event' /\ ~stop_event) =>
              (stop_by_duplicates' \/ (run_pc' = "gather_consumers" /\ ProducersDone(ppc))) ]_vars

\* one direction failed on its first request, the other went on to a second
\* page and had records accepted, the signal clear
C11_Witness ==
    \E d, e \in Directions :
        /\ d # e
        /\ ppc[d] = "finished"
        /\ Len(requests[d]) = 1
        /\ \A i \in 1..Len(put_log) : put_log[i] = e
        /\ ~stop_event
        /\ Len(requests[e]) = 2
        /\ stats[e].reviews > 0

\* C12: in the two-page scenario the HIGHEST direction issues exactly two
\* requests (no cursor, then ScenarioToken) and stops on the cursor it has
\* already used, exactly 3 records end up in all_reviews, and the duplicate
\* threshold never raises the signal.
C12_TwoPageScenario ==
    /\ Len(requests["HIGHEST"]) <= 2
    /\ Len(all_reviews) <= 3
    /\ ~stop_by_duplicates
    /\ ppc["HIGHEST"] = "finished" =>
          /\ requests["HIGHEST"] = <<NoToken, ScenarioToken>>
          /\ ptoken["HIGHEST"] = ScenarioToken
          /\ ScenarioToken \in used_tokens
          /\ Len(SelectSeq(put_log, LAMBDA x : x = "HIGHEST")) = 2
    /\ run_pc = "done" =>
          /\ Len(all_reviews) = 3
          /\ { all_reviews[i].reviewerId : i \in 1..3 } = {1, 2, 3}
          /\ \A i \in 1..3 : all_reviews[i].sortDirection = "HIGHEST"
    /\ Quiescent => run_pc = "done"

\* the scenario has run to its end: both pages parsed, five duplicates counted
C12_Witness ==
    /\ run_pc = "done"
    /\ Len(requests["HIGHEST"]) = 2
    /\ Len(all_reviews) = 3
    /\ stats["HIGHEST"].duplicates = 5
    /\ stats["HIGHEST"].reviews = 3

\* C13: for an entry whose rating field is missing fast_parse_review returns
\* a record whose rating is null, and no exception reaches the caller.
C13_MissingRatingGivesRecord ==
    (/\ fn_in[1] = "fast_parse_review"
     /\ fn_in[2].has_meta
     /\ fn_in[2].stars \in {"absent", "null"}
     /\ fn_out # NoResult)
    => (fn_out[1] = "value" /\ fn_out[2].stars = "null")

\* C14 as claimed: a review without rating gets a confidence strictly below
\* 0.8 (80 percent), whatever its other fields.
C14_NoRatingBelow80 ==
    (/\ fn_in[1] = "calculate_confidence"
     /\ fn_in[2].rating = NoRating
     /\ fn_out # NoResult)
    => fn_out[2] < 80

\* C14: a review without rating gets a confidence of at most 0.8, and exactly
\* 0.8 only when name, user id, a text longer than long_text_length and date
\* info are all present.
C14_NoRatingAtMost80 ==
    (/\ fn_in[1] = "calculate_confidence"
     /\ fn_in[2].rating = NoRating
     /\ fn_out # NoResult)
    => /\ fn_out[2] <= 80
       /\ fn_out[2] = 80 <=>
             /\ fn_in[2].name
             /\ fn_in[2].user_id
             /\ fn_in[2].text_len > long_text_length
             /\ fn_in[2].date_info

\* a review without rating that reaches 0.8
C14_Witness ==
    /\ fn_in[1] = "calculate_confidence"
    /\ fn_in[2].rating = NoRating
    /\ fn_out = Returns(80)

\* C15: for a review without text, any non-empty text makes the confidence
\* strictly larger, whatever the other fields, and the confidence is within
\* [0, 1] (0..100 percent).
C15_TextRaisesConfidence ==
    (fn_in[1] = "calculate_confidence" /\ fn_out # NoResult)
    => /\ fn_out[2] \in 0..100
       /\ fn_in[2].text_len \in {NoText, 0} =>
             \A n \in {1, long_text_length, long_text_length + 1} :
                LET with_text == calculate_confidence([fn_in[2] EXCEPT !.text_len = n])
                IN with_text > fn_out[2] /\ with_text \in 0..100

\* the otherwise-empty entry: 0 without text, 0.25 with a short text
C15_Witness ==
    /\ fn_in = <<"calculate_confidence",
                 [name |-> FALSE, user_id |-> FALSE, text_len |-> NoText,
                  rating |-> NoRating, date_info |-> FALSE]>>
    /\ fn_out = Returns(0)
    /\ calculate_confidence([fn_in[2] EXCEPT !.text_len = 1]) = 25

\* a body that is a JSON array of at least 3 elements, whitespace allowed
\* before it
ValidEnvelopeText(text) ==
    /\ \A i \in 1..Len(text.head) : text.head[i] \in JsonWhitespace
    /\ text.doc.shape = "list"
    /\ text.doc.len >= 3

\* C16: for a body B that is a valid envelope, the RPC prefix followed by B
\* decodes to the same cursor and the same entry list as B alone: the cursor
\* is B's element 1 and the entries are B's element 2.
C16_PrefixRoundTrip ==
    (/\ fn_in[1] = "parse_batch"
     /\ fn_out # NoResult
     /\ ValidEnvelopeText(fn_in[2]))
    => LET B == fn_in[2]
           prefixed == [B EXCEPT !.head = RpcPrefix \o @]
       IN /\ EnvelopeOf(prefixed) = fn_out[2]
          /\ fn_out[2].ok
          /\ fn_out[2].cursor = B.doc.token
          /\ fn_out[2].entries = Entries(B.doc.entries)

\* a prefixed body with a cursor and entries, decoded
C16_Witness ==
    /\ fn_in[1] = "parse_batch"
    /\ fn_in[2].head = RpcPrefix
    /\ fn_out # NoResult
    /\ fn_out[2].ok
    /\ fn_out[2].cursor # NoToken
    /\ fn_out[2].entries # <<>>
    /\ fn_out[2] = EnvelopeOf([fn_in[2] EXCEPT !.head = <<>>])

\* C17: a crawl started with max_pages_per_direction = N issues at most N
\* requests per direction.
C17_V3PageLimit ==
    (scraper = "v3" /\ v3_max_pages # NoLimit) =>
        \A d \in Directions : Len(v3_requests[d]) <= v3_max_pages

\* the bodies direction d has put on the queue, and those of them that have
\* been through parse_batch
PutsOf(d) == { i \in 1..Len(put_log) : put_log[i] = d }
ParsedOf(d) == PutsOf(d) \cap handled

OwnCursors(d) == { requests[d][i] : i \in 1..Len(requests[d]) } \ {NoToken}

\* C19: a direction stops by the loop guard only on a cursor it has used
\* itself; a cursor only the other direction has used does not stop it.
C19_OwnCursorHistory ==
    [][ \A d \in Directions :
            (/\ ppc[d] = "put"
             /\ ppc'[d] = "finished"
             /\ QuickToken(pbody[d]) = "token")
            => pbody[d].token \in OwnCursors(d) ]_vars

\* a 2xx body that is not valid JSON or not a top-level array of at least 3
\* elements
MalformedEnvelope(body) ==
    LET data == strip_rpc_prefix(body)
    IN data.shape # "list" \/ data.len < 3

\* C20: the producer that fetched a malformed envelope leaves its loop when it
\* has queued the body (it issues no further request), and parse_batch accepts
\* no record from such a body.
C20_MalformedEnvelopeTerminal ==
    [][ /\ \A d \in Directions :
              (ppc[d] = "put" /\ ppc'[d] # "put" /\ MalformedEnvelope(pbody[d]))
              => ppc'[d] = "finished"
        /\ \A w \in Workers :
              (cpc[w] = "process" /\ cpc'[w] # "process" /\ MalformedEnvelope(citem[w][1]))
              => (all_reviews' = all_reviews /\ seen_reviewer_ids' = seen_reviewer_ids) ]_vars

\* C21: a producer that has queued a well-formed body whose entry list is
\* empty or null leaves its loop, whatever cursor the body advertises, and so
\* does a producer whose body advertises no cursor.
C21_EmptyListEndsDirection ==
    [][ \A d \in Directions :
            (/\ ppc[d] = "put"
             /\ ppc'[d] # "put"
             /\ ~MalformedEnvelope(pbody[d])
             /\ (pbody[d].entries = <<>> \/ pbody[d].token = NoToken))
            => ppc'[d] = "finished" ]_vars

\* the last token of the list that is not in the used set, NoToken when none
LastUnused(available_tokens, used_tokens_set) ==
    LET unused == { i \in 1..Len(available_tokens) : available_tokens[i] \notin used_tokens_set }
    IN IF unused = {} THEN NoToken
       ELSE available_tokens[CHOOSE i \in unused : \A j \in unused : j <= i]

\* C22: get_next_unused_token returns the last token of the advertised list
\* that is not in the used set, and None when every token is used.
C22_NewestFirst ==
    (fn_in[1] = "get_next_unused_token" /\ fn_out # NoResult)
    => fn_out[2] = LastUnused(fn_in[2].available_tokens, fn_in[2].used_tokens_set)

\* C23: an entry whose rating is absent or outside 1..5 yields no record, so
\* every record fast_parse_review returns has stars in 1..5.
C23_RatingFailsClosed ==
    (fn_in[1] = "fast_parse_review" /\ fn_out # NoResult)
    => /\ fn_in[2].stars \notin ValidStars => fn_out = ReturnsNone
       /\ fn_out[1] = "value" => fn_out[2].stars \in ValidStars

\* C24: for an entry with a valid rating a record is returned also when no
\* author block is found (the reviewerId then being a placeholder, here 0) and
\* when the likes pair holds a non-numeric value (likesCount then being 0).
C24_OptionalFieldsKeepRecord ==
    (/\ fn_in[1] = "fast_parse_review"
     /\ fn_out # NoResult
     /\ fn_in[2].has_meta
     /\ fn_in[2].stars \in ValidStars)
    => /\ fn_out[1] = "value"
       /\ fn_in[2].user = 0 => fn_out[2].reviewerId = 0
       /\ fn_in[2].likes = "bad" => fn_out[2].likesCount = "0"

\* the weighted completeness score of a record fast_parse_review returned
RecordScore(review) ==
    calculate_confidence([name |-> TRUE, user_id |-> TRUE,
                          text_len |-> IF review.text = "" THEN 0 ELSE 5,
                          rating |-> 5, date_info |-> review.dated])

\* C27: the confidence of a record fast_parse_review returns is the weighted
\* completeness score of the fields recovered, so it is below 1.0 for a
\* record with empty text or a defaulted timestamp.
C27_ConfidenceIsScore ==
    (fn_in[1] = "fast_parse_review" /\ fn_out # NoResult /\ fn_out[1] = "value")
    => /\ fn_out[2].extractionConfidence = RecordScore(fn_out[2])
       /\ (fn_out[2].text = "" \/ ~fn_out[2].dated) => fn_out[2].extractionConfidence < 100

\* the lists below node, in the order of a pre-order walk
RECURSIVE PreOrderLists(_), PreOrderListsFrom(_, _)
PreOrderListsFrom(node, i) ==
    IF i > Len(node.items) THEN <<>>
    ELSE (IF node.items[i].kind = "list"
          THEN <<node.items[i]>> \o PreOrderLists(node.items[i])
          ELSE <<>>) \o PreOrderListsFrom(node, i + 1)

PreOrderLists(node) == PreOrderListsFrom(node, 1)

IsLikesPair(node) ==
    /\ Len(node.items) = 2
    /\ node.items[1] = IntLeaf(1)
    /\ node.items[2].kind = "int"

\* the reference search: N of the first [1, N] of the walk, 0 without one
FirstLikesPair(block) ==
    LET pairs == SelectSeq(PreOrderLists(block), IsLikesPair)
    IN IF pairs = <<>> THEN 0 ELSE pairs[1].items[2].num

\* C25: _find_likes returns what the reference pre-order search returns: N of
\* the first list [1, N] anywhere in the entry, whatever lists precede it,
\* and 0 only when there is no such list.
C25_FindLikesIsPreOrderSearch ==
    (fn_in[1] = "_find_likes" /\ fn_out # NoResult)
    => fn_out = Returns(FirstLikesPair(fn_in[2]))

\* the string leaves of node, in the order of a pre-order walk
RECURSIVE PreOrderStrings(_), PreOrderStringsFrom(_, _)
PreOrderStringsFrom(node, i) ==
    IF i > Len(node.items) THEN <<>>
    ELSE PreOrderStrings(node.items[i]) \o PreOrderStringsFrom(node, i + 1)

PreOrderStrings(node) ==
    IF node.kind = "list" THEN PreOrderStringsFrom(node, 1)
    ELSE IF node.kind = "str" THEN <<node.str>>
    ELSE <<>>

\* q without the later occurrences of its elements
RECURSIVE FirstOccurrences(_)
FirstOccurrences(q) ==
    IF q = <<>> THEN <<>>
    ELSE LET front == SubSeq(q, 1, Len(q) - 1)
             last == q[Len(q)]
         IN IF \E i \in 1..Len(front) : front[i] = last
            THEN FirstOccurrences(front)
            ELSE Append(FirstOccurrences(front), last)

\* C26: the images list holds every string leaf of the entry that starts with
\* an image-host prefix, in the order of first occurrence in a pre-order walk,
\* and holds no URL twice.
C26_ImagesOrderedAndUnique ==
    (fn_in[1] = "images" /\ fn_out # NoResult)
    => fn_out = Returns(FirstOccurrences(SelectSeq(PreOrderStrings(fn_in[2]), IsImageUrl)))

\* the reviewer ids of the entries of a body that fast_parse_review decodes
DecodedIds(body) ==
    LET decodable == SelectSeq(Entries(body.entries), LAMBDA e : e.kind = "review")
    IN [i \in 1..Len(decodable) |-> decodable[i].reviewerId]

\* C28: an entry of a batch that is no list or that fast_parse_review cannot
\* decode changes neither seen_reviewer_ids nor duplicate_count nor the count
\* of the batch, and the other entries of the batch are decoded and filtered
\* as if it were absent: parse_batch leaves what the decodable entries alone
\* give.
C28_FailuresIsolated ==
    [][ \A w \in Workers :
            (cpc[w] = "process" /\ cpc'[w] = "get" /\ ~MalformedEnvelope(citem[w][1]))
            => LET ids == DecodedIds(citem[w][1])
                   repeats == { i \in 1..Len(ids) :
                                   \/ ids[i] \in seen_reviewer_ids
                                   \/ \E j \in 1..(i - 1) : ids[j] = ids[i] }
                   fresh == FirstOccurrences(
                                SelectSeq(ids, LAMBDA r : r \notin seen_reviewer_ids))
               IN /\ seen_reviewer_ids' = seen_reviewer_ids \cup { ids[i] : i \in 1..Len(ids) }
                  /\ duplicate_count' = duplicate_count + Cardinality(repeats)
                  /\ stats'[citem[w][2]].duplicates
                        = stats[citem[w][2]].duplicates + Cardinality(repeats)
                  /\ Len(all_reviews') = Len(all_reviews) + Len(fresh)
                  /\ \A i \in 1..Len(fresh) :
                        all_reviews'[Len(all_reviews) + i].reviewerId = fresh[i]
                  /\ stop_event' = (stop_event \/ Cardinality(repeats) > duplicate_threshold)
      ]_vars

\* a batch with undecodable entries in it has been through parse_batch, and
\* the entries before them were accepted and the ones after them counted
C28_Witness ==
    /\ parse_calls = 1
    /\ \E b \in batch_log :
          \E i \in 1..Len(Entries(b[1])) : Entries(b[1])[i].kind # "review"
    /\ Len(all_reviews) = NumReviewers
    /\ duplicate_count = duplicate_threshold \div 2 + 1

\* C29: the statistics agree with the result: all_reviews has as many records
\* as the two directions' reviews counts add up to and as seen_reviewer_ids has
\* ids, and duplicate_count is the sum of the two directions' duplicates
\* counts. (No state of the model lies inside a parse_batch call.)
C29_StatsConsistent ==
    scraper = "optimized"
    => /\ Len(all_reviews) = stats["HIGHEST"].reviews + stats["LOWEST"].reviews
       /\ Len(all_reviews) = Cardinality(seen_reviewer_ids)
       /\ duplicate_count = stats["HIGHEST"].duplicates + stats["LOWEST"].duplicates

\* run has returned records, and each direction has met duplicates
C29_Witness ==
    /\ run_pc = "done"
    /\ all_reviews # <<>>
    /\ \A d \in Directions : stats[d].duplicates > 0

\* C30: when a producer has finished, its pages statistic is the number of
\* bodies it has put on the queue, the last one included.
C30_PagesCountsFetched ==
    \A d \in Directions :
        (scraper = "optimized" /\ ppc[d] = "finished")
        => stats[d].pages = Cardinality(PutsOf(d))

====
